---- MODULE Spec2Model ----
(***************************************************************************)
(* A model of the grams package: the separate-chaining HashTable           *)
(* (grams/hashtable.py), the roulette-wheel binary search Gram.bin_search  *)
(* and the batched histograms Listogram and Dictogram (grams/grams.py).    *)
(*                                                                         *)
(* The three engines are independent objects.  Each has its own            *)
(* specification (SpecHT, SpecBS, SpecGram) that drives one engine and     *)
(* leaves the variables of the other two at their initial values.          *)
(***************************************************************************)
EXTENDS Integers, Sequences, FiniteSets

VARIABLES
    \* HashTable
    buckets,            \* self.buckets: sequence of buckets, each a sequence of <<key, value>>
    table_size,         \* self.table_size
    ht_ret,             \* outcome of the last HashTable call
    ht_model,           \* history: key -> value of the last set not undone by a successful delete (0: none)
    load_factor,        \* self.load_factor, in tenths
    \* Gram.bin_search
    bs_array,           \* the array argument: sequence of cumulative values
    bs_prob,            \* the prob argument
    bs_lo,              \* local lo
    bs_hi,              \* local hi
    bs_pc,              \* "idle", "loop" or "done"
    bs_result,          \* returned index (0-based), -1 for None
    \* Listogram / Dictogram
    variant,            \* "Listogram" or "Dictogram"
    word_to_freq,       \* the distribution: sequence of <<word, count>> in enumeration order
    temp_word_to_freq,  \* the pending counts: sequence of <<word, count>>
    logs,               \* self._logs_: names of the last LogsSize method calls
    ret,                \* outcome of the last histogram call
    expected,           \* history: word -> construction count plus all deltas passed to add_count
    direct,             \* history: the counts last observed by a read, plus the deltas added since
    nadds,              \* history: number of add_count calls so far
    \* a Dictogram driven by the same calls as the Listogram above (SpecDuo)
    d_word_to_freq,     \* its distribution
    d_temp_word_to_freq, \* its pending counts
    d_logs,             \* its _logs_
    d_ret               \* outcome of its last call

ht_vars == <<buckets, table_size, ht_ret, ht_model, load_factor>>
bs_vars == <<bs_array, bs_prob, bs_lo, bs_hi, bs_pc, bs_result>>
gram_vars == <<variant, word_to_freq, temp_word_to_freq, logs, ret, expected, direct, nadds>>
duo_vars == <<d_word_to_freq, d_temp_word_to_freq, d_logs, d_ret>>
vars == <<ht_vars, bs_vars, gram_vars, duo_vars>>

(***************************************************************************)
(* Bounds of the model.                                                    *)
(***************************************************************************)
InitSize == 2           \* number of buckets (the init_size argument)
MaxKey == 3             \* keys are 0..MaxKey
MaxVal == 2             \* values are 1..MaxVal
MaxLen == 3             \* a cumulative table has at most MaxLen bins
MaxCount == 3           \* each bin counts 0..MaxCount
Unit == 2               \* draws are multiples of 1/Unit: a count c is the number c * Unit
MaxWords == 1           \* the word list given to the constructor has at most MaxWords words
MaxDelta == 2           \* add_count is called with counts 1..MaxDelta
MaxAdds == 2            \* at most MaxAdds calls of add_count

LogsSize == 4           \* logs_size of the LogMethodCalls metaclass
LoadFactorTenths == 9   \* self.load_factor = .9

Keys == 0..MaxKey
Values == 1..MaxVal

RECURSIVE SumLens(_)
SumLens(bs) == IF bs = <<>> THEN 0 ELSE Len(Head(bs)) + SumLens(Tail(bs))

RECURSIVE Concat(_)
Concat(bs) == IF bs = <<>> THEN <<>> ELSE Head(bs) \o Concat(Tail(bs))

(***************************************************************************)
(* LinkedList (grams/linkedlist.py), the bucket: an ordered sequence of    *)
(* <<key, value>> entries with find, replace-or-append and remove.         *)
(***************************************************************************)
\* positions of the entries of ll whose key matches
LL_matches(ll, key) == {i \in 1..Len(ll) : ll[i][1] = key}

LL_first(ll, key) == CHOOSE i \in LL_matches(ll, key) : \A j \in LL_matches(ll, key) : i <= j

LL_length(ll) == Len(ll)

\* find(matcher): the first matching entry, or None
LL_find(ll, key) ==
    IF LL_matches(ll, key) = {}
    THEN [found |-> FALSE, item |-> <<>>]
    ELSE [found |-> TRUE, item |-> ll[LL_first(ll, key)]]

\* replace(matcher, new_item): replace the first matching entry in place, else append
LL_replace(ll, key, item) ==
    IF LL_matches(ll, key) = {}
    THEN Append(ll, item)
    ELSE [ll EXCEPT ![LL_first(ll, key)] = item]

\* replace(matcher) without a new item: remove the first matching entry, else KeyError
LL_remove(ll, key) ==
    IF LL_matches(ll, key) = {}
    THEN [status |-> "KeyError", list |-> ll]
    ELSE [status |-> "ok",
          list |-> SubSeq(ll, 1, LL_first(ll, key) - 1)
                   \o SubSeq(ll, LL_first(ll, key) + 1, Len(ll))]

(***************************************************************************)
(* HashTable                                                               *)
(***************************************************************************)
\* hash(key) % len(self.buckets); the hash of a small non-negative int is itself.
\* Bucket i of the code is buckets[i + 1] here.
\* A slip: the quotient by the number of buckets is reduced instead of the hash itself.
bucket_index_quotient(b, key) == ((key \div Len(b)) % Len(b)) + 1

bucket_index(b, key) == (key % Len(b)) + 1

HT_length(b) == SumLens(b)

HT_items(b) == Concat(b)

\* bucket.items(): the bucket's entries in its own order
LL_items(ll) == ll

\* keys(): for bucket in self.buckets: for key, value in bucket.items(): append key
RECURSIVE HT_keys(_)
HT_keys(b) ==
    IF b = <<>>
    THEN <<>>
    ELSE [j \in 1..Len(LL_items(Head(b))) |-> LL_items(Head(b))[j][1]] \o HT_keys(Tail(b))

\* A slip: the buckets are walked from the last to the first.
RECURSIVE HT_values_backwards(_)
HT_values_backwards(b) ==
    IF b = <<>>
    THEN <<>>
    ELSE HT_values_backwards(Tail(b))
         \o [j \in 1..Len(LL_items(Head(b))) |-> LL_items(Head(b))[j][2]]

\* values(): [value for ll in self.buckets for _, value in ll.items()]
RECURSIVE HT_values(_)
HT_values(b) ==
    IF b = <<>>
    THEN <<>>
    ELSE [j \in 1..Len(LL_items(Head(b))) |-> LL_items(Head(b))[j][2]] \o HT_values(Tail(b))

\* A slip: the value of the bucket's first entry, whatever its key.
HT_get_first(b, key) ==
    LET ll == b[bucket_index(b, key)]
    IN  IF ll = <<>>
        THEN [status |-> "KeyError", val |-> 0]
        ELSE [status |-> "ok", val |-> ll[1][2]]

HT_get(b, key) ==
    LET val == LL_find(b[bucket_index(b, key)], key)
    IN  IF ~val.found
        THEN [status |-> "KeyError", val |-> 0]
        ELSE [status |-> "ok", val |-> val.item[2]]

HT_contains(b, key) == HT_get(b, key).status = "ok"

\* A slip: the bucket's old length is not subtracted before the new one is added.
HT_set_nosub(b, ts, key, value) ==
    LET idx == bucket_index(b, key)
        b2 == [b EXCEPT ![idx] = LL_replace(@, key, <<key, value>>)]
    IN  [buckets |-> b2, table_size |-> ts + LL_length(b2[idx])]

\* A slip: the pair is appended to the bucket without looking for the key.
HT_set_append(b, ts, key, value) ==
    LET idx == bucket_index(b, key)
        ts1 == ts - LL_length(b[idx])
        b2 == [b EXCEPT ![idx] = Append(@, <<key, value>>)]
    IN  [buckets |-> b2, table_size |-> ts1 + LL_length(b2[idx])]

\* A slip: the table grows by a bucket once the load exceeds the load factor.
HT_set_resize(b, ts, key, value) ==
    LET idx == bucket_index(b, key)
        ts1 == ts - LL_length(b[idx])
        b2 == [b EXCEPT ![idx] = LL_replace(@, key, <<key, value>>)]
        ts2 == ts1 + LL_length(b2[idx])
    IN  [buckets |-> IF ts2 * 10 > LoadFactorTenths * Len(b2) THEN Append(b2, <<>>) ELSE b2,
         table_size |-> ts2]

\* A slip: a present key's entry is removed and the new pair is put at the bucket's end.
HT_set_reinsert(b, ts, key, value) ==
    LET idx == bucket_index(b, key)
        ts1 == ts - LL_length(b[idx])
        b2 == [b EXCEPT ![idx] = Append(LL_remove(@, key).list, <<key, value>>)]
    IN  [buckets |-> b2, table_size |-> ts1 + LL_length(b2[idx])]

HT_set(b, ts, key, value) ==
    LET idx == bucket_index(b, key)
        ts1 == ts - LL_length(b[idx])
        b2 == [b EXCEPT ![idx] = LL_replace(@, key, <<key, value>>)]
    IN  [buckets |-> b2, table_size |-> ts1 + LL_length(b2[idx])]

\* A slip: the count is decremented before the bucket is asked to remove the key.
HT_delete_early(b, ts, key) ==
    LET idx == bucket_index(b, key)
        r == LL_remove(b[idx], key)
    IN  [buckets |-> [b EXCEPT ![idx] = r.list], table_size |-> ts - 1, status |-> r.status]

HT_delete(b, ts, key) ==
    LET idx == bucket_index(b, key)
        r == LL_remove(b[idx], key)
    IN  IF r.status = "ok"
        THEN [buckets |-> [b EXCEPT ![idx] = r.list], table_size |-> ts - 1, status |-> "ok"]
        ELSE [buckets |-> b, table_size |-> ts, status |-> "KeyError"]

\* load: table_size / len(self.buckets), kept as the pair <<numerator, denominator>>
HT_load(b, ts) == <<ts, Len(b)>>

HT_NoCall == [op |-> "init", key |-> 0, status |-> "ok", val |-> 0, was |-> FALSE, size |-> 0]

\* HashTable(init_size): init_size empty buckets, table_size 0
HT_Init ==
    /\ buckets = [i \in 1..InitSize |-> <<>>]
    /\ table_size = 0
    /\ ht_ret = HT_NoCall
    /\ ht_model = [k \in Keys |-> 0]
    /\ load_factor = LoadFactorTenths
    /\ d_word_to_freq = <<>> /\ d_temp_word_to_freq = <<>> /\ d_logs = <<>> /\ d_ret = <<>>
    /\ bs_array = <<>> /\ bs_prob = 0 /\ bs_lo = 0 /\ bs_hi = 0
    /\ bs_pc = "idle" /\ bs_result = -1
    /\ variant = "none" /\ word_to_freq = <<>> /\ temp_word_to_freq = <<>>
    /\ logs = <<>> /\ ret = <<>> /\ expected = <<>> /\ direct = <<>> /\ nadds = 0

HT_Set(k, v) ==
    LET r == HT_set(buckets, table_size, k, v)
    IN  /\ buckets' = r.buckets
        /\ table_size' = r.table_size
        /\ ht_ret' = [op |-> "set", key |-> k, status |-> "ok", val |-> v,
                      was |-> ht_model[k] # 0, size |-> HT_length(buckets)]
        /\ ht_model' = [ht_model EXCEPT ![k] = v]
        /\ UNCHANGED <<load_factor, bs_vars, gram_vars, duo_vars>>

HT_Delete(k) ==
    LET r == HT_delete(buckets, table_size, k)
    IN  /\ buckets' = r.buckets
        /\ table_size' = r.table_size
        /\ ht_ret' = [op |-> "delete", key |-> k, status |-> r.status, val |-> 0,
                      was |-> ht_model[k] # 0, size |-> HT_length(buckets)]
        /\ ht_model' = IF r.status = "ok" THEN [ht_model EXCEPT ![k] = 0] ELSE ht_model
        /\ UNCHANGED <<load_factor, bs_vars, gram_vars, duo_vars>>

HT_Get(k) ==
    LET r == HT_get(buckets, k)
    IN  /\ ht_ret' = [op |-> "get", key |-> k, status |-> r.status, val |-> r.val,
                      was |-> ht_model[k] # 0, size |-> HT_length(buckets)]
        /\ UNCHANGED <<buckets, table_size, ht_model, load_factor, bs_vars, gram_vars, duo_vars>>

HT_Contains(k) ==
    /\ ht_ret' = [op |-> "contains", key |-> k, status |-> "ok",
                  val |-> IF HT_contains(buckets, k) THEN 1 ELSE 0,
                  was |-> ht_model[k] # 0, size |-> HT_length(buckets)]
    /\ UNCHANGED <<buckets, table_size, ht_model, load_factor, bs_vars, gram_vars, duo_vars>>

HT_Next ==
    \/ \E k \in Keys, v \in Values : HT_Set(k, v)
    \/ \E k \in Keys : HT_Delete(k)
    \/ \E k \in Keys : HT_Get(k)
    \/ \E k \in Keys : HT_Contains(k)

SpecHT == HT_Init /\ [][HT_Next]_vars

(***************************************************************************)
(* Gram.bin_search                                                         *)
(***************************************************************************)
\* The cumulative table of a sequence of counts: the running total at index i is the
\* sum of the counts at indices 0..i.  Values are in units of 1/Unit.
RECURSIVE Cumulative(_)
Cumulative(counts) ==
    IF counts = <<>>
    THEN <<>>
    ELSE LET front == Cumulative(SubSeq(counts, 1, Len(counts) - 1))
         IN  Append(front, (IF front = <<>> THEN 0 ELSE front[Len(front)])
                           + counts[Len(counts)] * Unit)

CountSeqs == UNION {[1..n -> 0..MaxCount] : n \in 0..MaxLen}
Tables == {Cumulative(c) : c \in CountSeqs}
Draws == 0..(MaxLen * MaxCount * Unit)

\* array[i].cumulative for the 0-based index i of the code
Cum(array, i) == array[i + 1]

\* A slip: the next bin may equal prob (>= for >) when the middle bin is returned.
bin_search_iter_ge(array, prob, lo, hi) ==
    LET mid == (lo + hi) \div 2
    IN  IF /\ Cum(array, mid) <= prob
           /\ (mid = Len(array) - 1 \/ Cum(array, mid + 1) >= prob)
        THEN [returns |-> TRUE, result |-> mid, lo |-> lo, hi |-> hi]
        ELSE IF Cum(array, mid) < prob
             THEN [returns |-> FALSE, result |-> -1, lo |-> mid + 1, hi |-> hi]
             ELSE [returns |-> FALSE, result |-> -1, lo |-> lo, hi |-> mid]

\* the 0-based indices of array that one pass through the loop body reads: mid, and
\* mid + 1 when array[mid].cumulative <= prob and mid is not the last index
bin_search_reads(array, prob, lo, hi) ==
    LET mid == (lo + hi) \div 2
    IN  IF mid \in 0..(Len(array) - 1) /\ Cum(array, mid) <= prob /\ mid # Len(array) - 1
        THEN {mid, mid + 1}
        ELSE {mid}

\* One pass through the body of the while loop (lo <= hi holds).
bin_search_iter(array, prob, lo, hi) ==
    LET mid == (lo + hi) \div 2
    IN  IF /\ Cum(array, mid) <= prob
           /\ (mid = Len(array) - 1 \/ Cum(array, mid + 1) > prob)
        THEN [returns |-> TRUE, result |-> mid, lo |-> lo, hi |-> hi]
        ELSE IF Cum(array, mid) < prob
             THEN [returns |-> FALSE, result |-> -1, lo |-> mid + 1, hi |-> hi]
             ELSE [returns |-> FALSE, result |-> -1, lo |-> lo, hi |-> mid]

\* bin_search(array, prob) is entered: lo = 0, hi = len(array) - 1
BS_Init ==
    /\ bs_array \in Tables
    /\ bs_prob \in Draws
    /\ bs_lo = 0
    /\ bs_hi = Len(bs_array) - 1
    /\ bs_pc = "loop"
    /\ bs_result = -1
    /\ buckets = <<>> /\ table_size = 0 /\ ht_ret = <<>> /\ ht_model = <<>>
    /\ load_factor = 0
    /\ d_word_to_freq = <<>> /\ d_temp_word_to_freq = <<>> /\ d_logs = <<>> /\ d_ret = <<>>
    /\ variant = "none" /\ word_to_freq = <<>> /\ temp_word_to_freq = <<>>
    /\ logs = <<>> /\ ret = <<>> /\ expected = <<>> /\ direct = <<>> /\ nadds = 0

\* one iteration of the while loop
BS_Iterate ==
    /\ bs_pc = "loop"
    /\ bs_lo <= bs_hi
    /\ LET r == bin_search_iter(bs_array, bs_prob, bs_lo, bs_hi)
       IN  /\ bs_lo' = r.lo
           /\ bs_hi' = r.hi
           /\ bs_result' = r.result
           /\ bs_pc' = IF r.returns THEN "done" ELSE "loop"
    /\ UNCHANGED <<bs_array, bs_prob, ht_vars, gram_vars, duo_vars>>

\* the loop condition fails: return None
BS_Exit ==
    /\ bs_pc = "loop"
    /\ bs_lo > bs_hi
    /\ bs_result' = -1
    /\ bs_pc' = "done"
    /\ UNCHANGED <<bs_array, bs_prob, bs_lo, bs_hi, ht_vars, gram_vars, duo_vars>>

BS_Next ==
    \/ BS_Iterate
    \/ BS_Exit

SpecBS == BS_Init /\ [][BS_Next]_vars

(***************************************************************************)
(* Properties of Gram.bin_search                                           *)
(***************************************************************************)
StrictlyIncreasing(array) == \A i \in 1..(Len(array) - 1) : array[i] < array[i + 1]
Total(array) == IF array = <<>> THEN 0 ELSE array[Len(array)]

\* the smallest 0-based index whose cumulative value exceeds prob
SmallestAbove(array, prob) ==
    CHOOSE i \in 0..(Len(array) - 1) :
        /\ Cum(array, i) > prob
        /\ \A j \in 0..(i - 1) : Cum(array, j) <= prob

\* the loop is in a state that the next iteration leaves as it is: lo only grows and hi
\* only shrinks, so this is the one way the loop can run forever
BS_Stuck ==
    /\ bs_pc = "loop"
    /\ bs_lo <= bs_hi
    /\ LET r == bin_search_iter(bs_array, bs_prob, bs_lo, bs_hi)
       IN  ~r.returns /\ r.lo = bs_lo /\ r.hi = bs_hi

\* C3: for a nonempty table with strictly increasing cumulative values and a draw with
\* 0 <= draw < total, bin_search returns the smallest index i with cumulative[i] > draw;
\* for counts a:1, b:2, c:3 draw 0 gives a, 2.5 gives b, 3 gives c and 5.9 gives c.
\* (Draws are the multiples of 1/Unit, all of them >= 0; 2.5 and 5.9 are rounded down to
\* one, which stays inside the same bin.)
RouletteWheelRule ==
    (/\ bs_pc = "done"
     /\ bs_array # <<>>
     /\ StrictlyIncreasing(bs_array)
     /\ bs_prob < Total(bs_array))
    => /\ bs_result = SmallestAbove(bs_array, bs_prob)
       /\ (bs_array = Cumulative(<<1, 2, 3>>) =>
             /\ (bs_prob = 0 => bs_result = 0)
             /\ (bs_prob = (5 * Unit) \div 2 => bs_result = 1)
             /\ (bs_prob = 3 * Unit => bs_result = 2)
             /\ (bs_prob = (59 * Unit) \div 10 => bs_result = 2))

\* C8: for a nonempty table with nondecreasing cumulative values and a draw with
\* 0 <= draw < total, the loop of bin_search terminates and returns an index, never None.
\* (Every table of Tables is nondecreasing and every draw of Draws is >= 0.)
BinSearchTerminates ==
    (/\ bs_array # <<>>
     /\ bs_prob < Total(bs_array))
    => /\ ~BS_Stuck
       /\ (bs_pc = "done" => bs_result # -1)

\* C19: an index i returned by bin_search satisfies cumulative[i] <= prob and either i is
\* the last index or cumulative[i+1] > prob; the search reads no element outside indices
\* 0..len-1, and it returns None for an empty table.
BinSearchReturnCondition ==
    /\ (bs_pc = "done" /\ bs_result # -1) =>
          /\ bs_result \in 0..(Len(bs_array) - 1)
          /\ Cum(bs_array, bs_result) <= bs_prob
          /\ (bs_result = Len(bs_array) - 1 \/ Cum(bs_array, bs_result + 1) > bs_prob)
    /\ (bs_pc = "loop" /\ bs_lo <= bs_hi) =>
          bin_search_reads(bs_array, bs_prob, bs_lo, bs_hi) \subseteq 0..(Len(bs_array) - 1)
    /\ (bs_pc = "done" /\ bs_array = <<>>) => bs_result = -1

\* the first index was returned for a draw inside the table, after the range was narrowed
BinSearchReturnWitness ==
    /\ bs_pc = "done"
    /\ Len(bs_array) >= 3
    /\ bs_hi < Len(bs_array) - 1
    /\ bs_result = 0
    /\ Cum(bs_array, 0) < bs_prob
    /\ bs_prob < Total(bs_array)

(***************************************************************************)
(* Listogram and Dictogram                                                 *)
(***************************************************************************)
Words == {"a", "b"}
WordLists == UNION {[1..n -> Words] : n \in 0..MaxWords}

HasWord(wtf, w) == \E i \in 1..Len(wtf) : wtf[i][1] = w

PosOf(wtf, w) == CHOOSE i \in 1..Len(wtf) : wtf[i][1] = w

\* mapping[word] += count on an insertion-ordered mapping (Counter, defaultdict(int))
AddTo(wtf, w, c) ==
    IF HasWord(wtf, w)
    THEN [wtf EXCEPT ![PosOf(wtf, w)] = <<w, @[2] + c>>]
    ELSE Append(wtf, <<w, c>>)

\* Counter(word_list).items()
RECURSIVE CounterOf(_)
CounterOf(word_list) ==
    IF word_list = <<>>
    THEN <<>>
    ELSE AddTo(CounterOf(SubSeq(word_list, 1, Len(word_list) - 1)),
               word_list[Len(word_list)], 1)

\* FreqDist.get(word, 0)
FreqDist_get(wtf, w) == IF HasWord(wtf, w) THEN wtf[PosOf(wtf, w)][2] ELSE 0

\* merge_data_containing_ints(word_to_freq, temp_word_to_freq): the counts of both, summed
\* per word
RECURSIVE merge_data_containing_ints(_, _)
merge_data_containing_ints(wtf, temp) ==
    IF temp = <<>>
    THEN wtf
    ELSE merge_data_containing_ints(AddTo(wtf, temp[1][1], temp[1][2]), Tail(temp))

\* LogMethodCalls: a call of a method the class defines is recorded in _logs_, which keeps
\* the last LogsSize names
LogCall(lg, name) ==
    IF Len(lg) >= LogsSize THEN Append(Tail(lg), name) ELSE Append(lg, name)

\* A slip: the object is re-initialised whenever pending counts exist, whatever the log says.
rebuild_when_pending(wtf, temp, lg) ==
    [logs |-> LogCall(lg, "rebuild_with_latent_wordcounts"),
     word_to_freq |-> IF temp # <<>> THEN merge_data_containing_ints(wtf, temp) ELSE wtf]

\* rebuild_with_latent_wordcounts, called with the log lg of the calls before it: the
\* object is re-initialised from the merged counts when the entry three from the end of
\* the log is add_count.  temp_word_to_freq is not assigned.
rebuild_with_latent_wordcounts(wtf, temp, lg) ==
    LET lg2 == LogCall(lg, "rebuild_with_latent_wordcounts")
    IN  [logs |-> lg2,
         word_to_freq |-> IF Len(lg2) > 2 /\ lg2[Len(lg2) - 2] = "add_count"
                          THEN merge_data_containing_ints(wtf, temp)
                          ELSE wtf]

\* A slip: Dictogram.add_count assigns the count to the word's entry (= for +=).
add_count_assign(v, temp, w, c) ==
    IF v = "Listogram"
    THEN Append(temp, <<w, c>>)
    ELSE IF HasWord(temp, w)
         THEN [temp EXCEPT ![PosOf(temp, w)] = <<w, c>>]
         ELSE Append(temp, <<w, c>>)

\* Listogram.add_count appends the pair; Dictogram.add_count adds to the word's entry
add_count(v, temp, w, c) ==
    IF v = "Listogram" THEN Append(temp, <<w, c>>) ELSE AddTo(temp, w, c)

\* the two variants with add_count, and all the variants with a frequency method
Batched == {"Listogram", "Dictogram"}
Variants == Batched \cup {"Gram", "Histogram", "Covergram"}

\* self[word]: the count of a word of the mapping, KeyError for any other word
FreqDist_getitem(wtf, w) ==
    IF HasWord(wtf, w)
    THEN [val |-> wtf[PosOf(wtf, w)][2], err |-> ""]
    ELSE [val |-> 0, err |-> "KeyError"]

Gram_NoCall == [op |-> "__init__", word |-> "", val |-> 0, err |-> "", rebuilds |-> FALSE,
                afterAdd |-> FALSE, added |-> "", direct |-> <<>>]

\* the record of a read: what it answered, and what preceded it
ReadRet(op, w, val, rebuilds) ==
    [op |-> op, word |-> w, val |-> val, err |-> "", rebuilds |-> rebuilds,
     afterAdd |-> ret.op = "add_count",
     added |-> IF ret.op = "add_count" THEN ret.word ELSE "",
     direct |-> direct]

\* Listogram(word_list) or Dictogram(word_list); Gram(data_frequency), Histogram(source_text)
\* and Covergram(filepath) hold the counts of their data and have no pending counts
Gram_Init ==
    /\ variant \in Variants
    /\ \E word_list \in WordLists :
          /\ word_to_freq = CounterOf(word_list)
          /\ expected = [w \in Words |-> FreqDist_get(CounterOf(word_list), w)]
          /\ direct = CounterOf(word_list)
    /\ temp_word_to_freq = <<>>
    /\ logs = IF variant = "Gram" THEN <<>> ELSE <<"__init__">>
    /\ ret = Gram_NoCall
    /\ nadds = 0
    /\ buckets = <<>> /\ table_size = 0 /\ ht_ret = <<>> /\ ht_model = <<>>
    /\ load_factor = 0
    /\ d_word_to_freq = <<>> /\ d_temp_word_to_freq = <<>> /\ d_logs = <<>> /\ d_ret = <<>>
    /\ bs_array = <<>> /\ bs_prob = 0 /\ bs_lo = 0 /\ bs_hi = 0
    /\ bs_pc = "idle" /\ bs_result = -1

\* A slip: the count is also added to the distribution at once (the docstring of
\* Dictogram.add_count still speaks of re-initialising on every call).
Gram_AddCount_eager(w, c) ==
    /\ variant \in Batched
    /\ nadds < MaxAdds
    /\ temp_word_to_freq' = add_count(variant, temp_word_to_freq, w, c)
    /\ word_to_freq' = AddTo(word_to_freq, w, c)
    /\ logs' = LogCall(logs, "add_count")
    /\ ret' = [op |-> "add_count", word |-> w, val |-> c, err |-> "", rebuilds |-> FALSE,
               afterAdd |-> ret.op = "add_count", added |-> "", direct |-> direct]
    /\ expected' = [expected EXCEPT ![w] = @ + c]
    /\ direct' = AddTo(direct, w, c)
    /\ nadds' = nadds + 1
    /\ UNCHANGED <<variant, ht_vars, bs_vars, duo_vars>>

Gram_AddCount(w, c) ==
    /\ variant \in Batched
    /\ nadds < MaxAdds
    /\ temp_word_to_freq' = add_count(variant, temp_word_to_freq, w, c)
    /\ logs' = LogCall(logs, "add_count")
    /\ ret' = [op |-> "add_count", word |-> w, val |-> c, err |-> "", rebuilds |-> FALSE,
               afterAdd |-> ret.op = "add_count", added |-> "", direct |-> direct]
    /\ expected' = [expected EXCEPT ![w] = @ + c]
    /\ direct' = AddTo(direct, w, c)
    /\ nadds' = nadds + 1
    /\ UNCHANGED <<variant, word_to_freq, ht_vars, bs_vars, duo_vars>>

\* a read that calls rebuild_with_latent_wordcounts first and then answers
RebuildingReadErr(op, w, err) ==
    LET r == rebuild_with_latent_wordcounts(word_to_freq, temp_word_to_freq,
                                            LogCall(logs, op))
    IN  /\ word_to_freq' = r.word_to_freq
        /\ logs' = r.logs
        /\ ret' = [ReadRet(op, w,
                           CASE op = "frequency" -> FreqDist_get(r.word_to_freq, w)
                             [] op = "__contains__" ->
                                    IF HasWord(r.word_to_freq, w) THEN 1 ELSE 0
                             [] op = "index_of" -> -1
                             [] OTHER -> 0,
                           TRUE) EXCEPT !.err = err]
        /\ direct' = r.word_to_freq
        /\ UNCHANGED <<variant, temp_word_to_freq, expected, nadds, ht_vars, bs_vars, duo_vars>>

RebuildingRead(op, w) == RebuildingReadErr(op, w, "")

\* Listogram.frequency and Dictogram.frequency
Gram_Frequency(w) ==
    /\ variant \in Batched
    /\ RebuildingRead("frequency", w)

\* Listogram.__contains__
Listogram_Contains(w) ==
    /\ variant = "Listogram"
    /\ RebuildingRead("__contains__", w)

\* Listogram.sample and Dictogram.sample; the word drawn by the sampler is not modelled
Gram_Sample ==
    /\ variant \in Batched
    /\ RebuildingRead("sample", "")

\* Dictogram.items
Dictogram_Items ==
    /\ variant = "Dictogram"
    /\ RebuildingRead("items", "")

\* Listogram.index_of: rebuilds, then raises NameError: the module defines no bin_search
\* (it imports binsearch, and Gram.bin_search is not a global name)
Listogram_IndexOf(w) ==
    /\ variant = "Listogram"
    /\ RebuildingReadErr("index_of", w, "NameError")

\* Listogram._index: rebuilds, then calls index_of, which rebuilds and fails
Listogram_Index(w) ==
    /\ variant = "Listogram"
    /\ LET r1 == rebuild_with_latent_wordcounts(word_to_freq, temp_word_to_freq,
                                                LogCall(logs, "_index"))
           r2 == rebuild_with_latent_wordcounts(r1.word_to_freq, temp_word_to_freq,
                                                LogCall(r1.logs, "index_of"))
       IN  /\ word_to_freq' = r2.word_to_freq
           /\ logs' = r2.logs
           /\ ret' = [ReadRet("_index", w, -1, TRUE) EXCEPT !.err = "NameError"]
           /\ direct' = r2.word_to_freq
    /\ UNCHANGED <<variant, temp_word_to_freq, expected, nadds, ht_vars, bs_vars, duo_vars>>

\* `word in dictogram`: Dictogram defines no __contains__, the inherited one answers from
\* the counts as they are
Dictogram_Contains(w) ==
    /\ variant = "Dictogram"
    /\ ret' = ReadRet("__contains__", w, IF HasWord(word_to_freq, w) THEN 1 ELSE 0, FALSE)
    /\ UNCHANGED <<variant, word_to_freq, temp_word_to_freq, logs, expected, direct,
                   nadds, ht_vars, bs_vars, duo_vars>>

\* listogram.items(): Listogram defines no items, the inherited one answers from the
\* counts as they are
Listogram_Items ==
    /\ variant = "Listogram"
    /\ ret' = ReadRet("items", "", 0, FALSE)
    /\ UNCHANGED <<variant, word_to_freq, temp_word_to_freq, logs, expected, direct,
                   nadds, ht_vars, bs_vars, duo_vars>>

\* Gram.frequency: raise NotImplementedError()
GramBase_frequency(w) ==
    /\ variant = "Gram"
    /\ ret' = [ReadRet("frequency", w, 0, FALSE) EXCEPT !.err = "NotImplementedError"]
    /\ UNCHANGED <<variant, word_to_freq, temp_word_to_freq, logs, expected, direct,
                   nadds, ht_vars, bs_vars, duo_vars>>

\* Histogram.frequency: return self[word]
Histogram_frequency(w) ==
    /\ variant = "Histogram"
    /\ ret' = [ReadRet("frequency", w, FreqDist_getitem(word_to_freq, w).val, FALSE)
                 EXCEPT !.err = FreqDist_getitem(word_to_freq, w).err]
    /\ logs' = LogCall(logs, "frequency")
    /\ UNCHANGED <<variant, word_to_freq, temp_word_to_freq, expected, direct,
                   nadds, ht_vars, bs_vars, duo_vars>>

\* Covergram.frequency: return self.get(module, 0)
Covergram_frequency(w) ==
    /\ variant = "Covergram"
    /\ ret' = ReadRet("frequency", w, FreqDist_get(word_to_freq, w), FALSE)
    /\ logs' = LogCall(logs, "frequency")
    /\ UNCHANGED <<variant, word_to_freq, temp_word_to_freq, expected, direct,
                   nadds, ht_vars, bs_vars, duo_vars>>

Gram_Next ==
    \/ \E w \in Words, c \in 1..MaxDelta : Gram_AddCount(w, c)
    \/ \E w \in Words : Gram_Frequency(w)
    \/ \E w \in Words : Listogram_Contains(w)
    \/ Gram_Sample
    \/ Dictogram_Items
    \/ \E w \in Words : Listogram_IndexOf(w)
    \/ \E w \in Words : Listogram_Index(w)
    \/ \E w \in Words : Dictogram_Contains(w)
    \/ Listogram_Items
    \/ \E w \in Words : GramBase_frequency(w)
    \/ \E w \in Words : Histogram_frequency(w)
    \/ \E w \in Words : Covergram_frequency(w)

SpecGram == Gram_Init /\ [][Gram_Next]_vars

(***************************************************************************)
(* A Listogram (variant, word_to_freq, temp_word_to_freq, logs, ret) and a  *)
(* Dictogram (the d_ variables) built from the same word list and driven   *)
(* by the same add_count and frequency calls.                              *)
(***************************************************************************)
Duo_Init ==
    /\ variant = "Listogram"
    /\ \E word_list \in WordLists :
          /\ word_to_freq = CounterOf(word_list)
          /\ d_word_to_freq = CounterOf(word_list)
          /\ expected = [w \in Words |-> FreqDist_get(CounterOf(word_list), w)]
          /\ direct = CounterOf(word_list)
    /\ temp_word_to_freq = <<>>
    /\ d_temp_word_to_freq = <<>>
    /\ logs = <<"__init__">>
    /\ d_logs = <<"__init__">>
    /\ ret = Gram_NoCall
    /\ d_ret = [op |-> "__init__", word |-> "", val |-> 0]
    /\ nadds = 0
    /\ buckets = <<>> /\ table_size = 0 /\ ht_ret = <<>> /\ ht_model = <<>>
    /\ load_factor = 0
    /\ bs_array = <<>> /\ bs_prob = 0 /\ bs_lo = 0 /\ bs_hi = 0
    /\ bs_pc = "idle" /\ bs_result = -1

\* add_count(w, c) on both
Duo_AddCount(w, c) ==
    /\ nadds < MaxAdds
    /\ temp_word_to_freq' = add_count("Listogram", temp_word_to_freq, w, c)
    /\ d_temp_word_to_freq' = add_count("Dictogram", d_temp_word_to_freq, w, c)
    /\ logs' = LogCall(logs, "add_count")
    /\ d_logs' = LogCall(d_logs, "add_count")
    /\ ret' = [op |-> "add_count", word |-> w, val |-> c, err |-> "", rebuilds |-> FALSE,
               afterAdd |-> ret.op = "add_count", added |-> "", direct |-> direct]
    /\ d_ret' = [op |-> "add_count", word |-> w, val |-> c]
    /\ expected' = [expected EXCEPT ![w] = @ + c]
    /\ direct' = AddTo(direct, w, c)
    /\ nadds' = nadds + 1
    /\ UNCHANGED <<variant, word_to_freq, d_word_to_freq, ht_vars, bs_vars>>

\* frequency(w) on both
Duo_Frequency(w) ==
    LET r == rebuild_with_latent_wordcounts(word_to_freq, temp_word_to_freq,
                                            LogCall(logs, "frequency"))
        d == rebuild_with_latent_wordcounts(d_word_to_freq, d_temp_word_to_freq,
                                            LogCall(d_logs, "frequency"))
    IN  /\ word_to_freq' = r.word_to_freq
        /\ logs' = r.logs
        /\ ret' = ReadRet("frequency", w, FreqDist_get(r.word_to_freq, w), TRUE)
        /\ direct' = r.word_to_freq
        /\ d_word_to_freq' = d.word_to_freq
        /\ d_logs' = d.logs
        /\ d_ret' = [op |-> "frequency", word |-> w, val |-> FreqDist_get(d.word_to_freq, w)]
        /\ UNCHANGED <<variant, temp_word_to_freq, d_temp_word_to_freq, expected, nadds,
                       ht_vars, bs_vars>>

Duo_Next ==
    \/ \E w \in Words, c \in 1..MaxDelta : Duo_AddCount(w, c)
    \/ \E w \in Words : Duo_Frequency(w)

SpecDuo == Duo_Init /\ [][Duo_Next]_vars

\* C20: started from the same word list and driven by the same add_count(w, d) and
\* frequency(w) calls, Listogram and Dictogram return the same value for every frequency
\* call, though one buffers a list of pairs and the other a summed mapping.
SameFrequency ==
    ret.op = "frequency" =>
        /\ d_ret.op = "frequency"
        /\ d_ret.word = ret.word
        /\ d_ret.val = ret.val

\* a frequency read after two add_count calls for the word: the Listogram buffers two
\* pairs, the Dictogram one summed entry
SameFrequencyWitness ==
    /\ ret.op = "frequency"
    /\ Len(temp_word_to_freq) = 2
    /\ Len(d_temp_word_to_freq) = 1
    /\ d_temp_word_to_freq[1][1] = ret.word
    /\ ret.val >= 2

(***************************************************************************)
(* Properties of the batched histograms                                    *)
(***************************************************************************)
ReadOps == {"frequency", "__contains__", "index_of", "sample", "items"}

\* C2: frequency(w) returns the count w had at construction plus the sum of all deltas
\* passed to add_count(w, d) before the read, no more and no less.
ReadAfterWrite ==
    ret.op = "frequency" => ret.val = expected[ret.word]

\* C7: each buffered delta is merged once: the first read after it merges it and leaves
\* temp_word_to_freq empty, so no later rebuild merges it again.
MergedExactlyOnce ==
    /\ \A w \in Words : FreqDist_get(word_to_freq, w) <= expected[w]
    /\ ret.rebuilds => temp_word_to_freq = <<>>

\* C9: the distribution observed by the first read after a burst of add_count calls is
\* the one constructed directly from the counts before the burst plus the burst's deltas.
MergeEqualsDirectConstruction ==
    (ret.rebuilds /\ ret.afterAdd) =>
        /\ Cumulative([i \in 1..Len(word_to_freq) |-> word_to_freq[i][2]])
           = Cumulative([i \in 1..Len(ret.direct) |-> ret.direct[i][2]])
        /\ word_to_freq = ret.direct

\* C10: in both variants each of frequency, contains, index_of, sample and items merges
\* the pending counts before answering, so a word added by add_count is visible to the
\* very next read.
AddedWordVisibleToNextRead ==
    (ret.op \in ReadOps /\ ret.afterAdd) =>
        /\ HasWord(word_to_freq, ret.added)
        /\ (ret.op = "__contains__" /\ ret.word = ret.added) => ret.val = 1
        /\ (ret.op = "frequency" /\ ret.word = ret.added) => ret.val > 0

\* C11: frequency(item) never fails: for every variant (Gram, Histogram, Listogram,
\* Dictogram, Covergram) it returns the stored count of a present item and 0 for an absent
\* one, without raising.
FrequencyNeverFails ==
    ret.op = "frequency" =>
        /\ ret.err = ""
        /\ ret.val = FreqDist_get(word_to_freq, ret.word)

\* C14: Listogram.index_of(item) returns the position of item in the enumeration order
\* after the pending counts are merged, and None (here -1), without raising, when the
\* item is absent.
IndexOfReturnsPosition ==
    ret.op \in {"index_of", "_index"} =>
        /\ ret.err = ""
        /\ ret.val = IF HasWord(word_to_freq, ret.word)
                     THEN PosOf(word_to_freq, ret.word) - 1
                     ELSE -1

\* the sum of the counts buffered for word x
RECURSIVE PendingSum(_, _)
PendingSum(temp, x) ==
    IF temp = <<>>
    THEN 0
    ELSE (IF temp[1][1] = x THEN temp[1][2] ELSE 0) + PendingSum(Tail(temp), x)

GetReturnsLastSet ==
    \A k \in Keys :
        HT_get(buckets, k) = IF ht_model[k] = 0
                             THEN [status |-> "KeyError", val |-> 0]
                             ELSE [status |-> "ok", val |-> ht_model[k]]

\* a successful delete left another key of the same bucket behind, and a key was deleted
\* that is now absent
GetAfterDeleteWitness ==
    /\ ht_ret.op = "delete" /\ ht_ret.status = "ok"
    /\ HT_get(buckets, ht_ret.key).status = "KeyError"
    /\ \E k \in Keys : /\ k # ht_ret.key
                       /\ bucket_index(buckets, k) = bucket_index(buckets, ht_ret.key)
                       /\ HT_get(buckets, k).status = "ok"
                       /\ HT_get(buckets, k).val = MaxVal

\* C4: table_size equals the sum of the lengths of all buckets, so load is
\* (number of stored entries) / (number of buckets).
TableSizeIsEntryCount ==
    /\ table_size = SumLens(buckets)
    /\ HT_load(buckets, table_size) = <<Len(Concat(buckets)), InitSize>>

\* a set overwrote a present key while the table held two entries in that bucket
TableSizeWitness ==
    /\ ht_ret.op = "set" /\ ht_ret.was
    /\ Len(buckets[bucket_index(buckets, ht_ret.key)]) >= 2
    /\ table_size >= 3

\* C5: length() equals the number of distinct keys set and not successfully deleted
\* since; setting a present key does not change length().
LengthCountsLiveKeys ==
    /\ HT_length(buckets) = Cardinality({k \in Keys : ht_model[k] # 0})
    /\ (ht_ret.op = "set" /\ ht_ret.was) => HT_length(buckets) = ht_ret.size

\* a present key was set again with the table holding at least two keys
LengthWitness ==
    /\ ht_ret.op = "set" /\ ht_ret.was
    /\ HT_length(buckets) >= 2
    /\ HT_length(buckets) = ht_ret.size

\* C6: delete(k) of a key that is not in the table raises KeyError and leaves every
\* bucket and table_size unchanged.
DeleteAbsentKeepsState ==
    [][(ht_ret'.op = "delete" /\ ~HT_contains(buckets, ht_ret'.key))
        => /\ ht_ret'.status = "KeyError"
           /\ buckets' = buckets
           /\ table_size' = table_size]_vars

\* a delete of an absent key failed on a table that holds an entry in the key's bucket
DeleteAbsentWitness ==
    /\ ht_ret.op = "delete" /\ ht_ret.status = "KeyError"
    /\ buckets[bucket_index(buckets, ht_ret.key)] # <<>>
    /\ table_size >= 2

\* the key occurs in some entry of some bucket
KeyStored(b, k) == \E i \in 1..Len(b) : \E j \in 1..Len(b[i]) : b[i][j][1] = k

\* C12: set(k, v) changes the entry count by +1 exactly when k was not in the table and
\* by 0 when it was; in the latter case only the value stored for k changes, and every
\* other entry of that bucket and every other bucket is left unchanged.
SetFrame ==
    [][ht_ret'.op = "set" =>
        LET k == ht_ret'.key
            v == ht_ret'.val
        IN  /\ table_size' - table_size = IF KeyStored(buckets, k) THEN 0 ELSE 1
            /\ SumLens(buckets') - SumLens(buckets) = IF KeyStored(buckets, k) THEN 0 ELSE 1
            /\ KeyStored(buckets, k) =>
                  /\ Len(buckets') = Len(buckets)
                  /\ \A i \in 1..Len(buckets) :
                        /\ Len(buckets'[i]) = Len(buckets[i])
                        /\ \A j \in 1..Len(buckets[i]) :
                              buckets'[i][j] = IF buckets[i][j][1] = k
                                               THEN <<k, v>>
                                               ELSE buckets[i][j]]_vars

\* a present key that is not the last entry of its bucket was set again
SetFrameWitness ==
    /\ ht_ret.op = "set" /\ ht_ret.was
    /\ LET ll == buckets[bucket_index(buckets, ht_ret.key)]
       IN  /\ Len(ll) >= 2
           /\ ll[1] = <<ht_ret.key, ht_ret.val>>
    /\ table_size = ht_ret.size

\* the places <<bucket, position>> where key k is stored
PlacesOf(b, k) == {p \in (1..Len(b)) \X (1..MaxKey + 1) :
                     p[2] <= Len(b[p[1]]) /\ b[p[1]][p[2]][1] = k}

\* C13: each key present in the table is stored in exactly one entry, that entry is in the
\* bucket at index hash(key) mod (number of buckets), and no key occurs twice.
KeysUniqueAndHomed ==
    /\ \A i \in 1..Len(buckets) : Len(buckets[i]) <= MaxKey + 1
    /\ \A k \in Keys :
          /\ Cardinality(PlacesOf(buckets, k)) <= 1
          /\ ht_model[k] # 0 => Cardinality(PlacesOf(buckets, k)) = 1
          /\ \A p \in PlacesOf(buckets, k) : p[1] = (k % InitSize) + 1

\* after a successful delete the table still holds two keys in one bucket and a key in
\* another
KeysUniqueWitness ==
    /\ ht_ret.op = "delete" /\ ht_ret.status = "ok"
    /\ \E i, j \in 1..Len(buckets) : i # j /\ Len(buckets[i]) >= 2 /\ Len(buckets[j]) >= 1

\* the number of entries in the buckets before bucket i
RECURSIVE Offset(_, _)
Offset(b, i) == IF i <= 1 THEN 0 ELSE Offset(b, i - 1) + Len(b[i - 1])

\* C15: keys(), values() and items() list the entries in bucket-index order and, within a
\* bucket, in the bucket's order; items() is the position-wise pairing of keys() with
\* values(), and each has length() elements.
ListingsInBucketOrder ==
    /\ Len(HT_items(buckets)) = HT_length(buckets)
    /\ Len(HT_keys(buckets)) = HT_length(buckets)
    /\ Len(HT_values(buckets)) = HT_length(buckets)
    /\ \A i \in 1..Len(buckets) : \A j \in 1..Len(buckets[i]) :
          /\ HT_items(buckets)[Offset(buckets, i) + j] = buckets[i][j]
          /\ HT_keys(buckets)[Offset(buckets, i) + j] = buckets[i][j][1]
          /\ HT_values(buckets)[Offset(buckets, i) + j] = buckets[i][j][2]
    /\ \A n \in 1..HT_length(buckets) :
          HT_items(buckets)[n] = <<HT_keys(buckets)[n], HT_values(buckets)[n]>>

\* both buckets hold entries, one of them two, with different values in the listing
ListingsWitness ==
    /\ \A i \in 1..Len(buckets) : buckets[i] # <<>>
    /\ \E i \in 1..Len(buckets) : Len(buckets[i]) >= 2
    /\ HT_values(buckets)[1] # HT_values(buckets)[HT_length(buckets)]

\* C16: no operation resizes the table: the number of buckets stays init_size and
\* load_factor stays 0.9, also in states where load exceeds load_factor.
NeverResized ==
    /\ Len(buckets) = InitSize
    /\ load_factor = LoadFactorTenths

\* the load (table_size / number of buckets) exceeds load_factor
OverloadedWitness ==
    /\ HT_load(buckets, table_size)[1] * 10 > load_factor * HT_load(buckets, table_size)[2]
    /\ table_size > InitSize
    /\ ht_ret.op \in {"get", "contains"}

====
